---- MODULE Spec2Model ----
\* Model of the AI-Agent retrieval-and-extraction pipeline:
\*   src/search.py          SearchEngine  (_execute_search, _process_response)
\*   src/llm_processing.py  LLMProcessor  (process_results, _process_single_result)
\*   src/main.py            AIAgentApp    (run, process_data, process_entity_with_retry)
\*
\* Python strings are modelled as sequences of tokens (words, punctuation,
\* blanks); concatenation is \o, a substring test is a test on tokens.
\* The floats 0.0 and 1.0 are the integers 0 and 1.  None is the value NULL.
EXTENDS Integers, Sequences, FiniteSets, TLC

\* ---------------------------------------------------------------- bounds
MaxRows == 2        \* rows of the input table's entity column
MaxOrganic == 1     \* organic results in one search response
MaxResults == 2     \* search outcomes handed to process_results
MaxPrefixes == 2    \* leading prefixes in a raw text of the language model
MaxFilter == 3      \* organic results in a response handed to _process_response

\* ------------------------------------------------------ program constants
SEARCH_MAX_RETRIES == 3     \* SearchEngine.max_retries
RETRY_DELAY == 2            \* SearchEngine.retry_delay
DEFAULT_MAX_RETRIES == 3    \* process_entity_with_retry(max_retries=3)
HTTP_TOO_MANY == 429        \* the rate-limit status code

NULL == "None"

\* ------------------------------------------------------------ strings
Contains(s, tok) == \E i \in 1..Len(s) : s[i] = tok

SeqsUpTo(S, n) == UNION {[1..k -> S] : k \in 0..n}

RECURSIVE Pow2(_)
Pow2(n) == IF n = 0 THEN 1 ELSE 2 * Pow2(n - 1)

\* ------------------------------------------------------------ inputs
Entities == {"Acme", "Globex"}

\* Query templates: tokens are literal text or replacement fields.
\* "{year}" is a field str.format(entity=...) cannot fill (KeyError).
PLACEHOLDER == "{entity}"
BadFields == {"{year}"}
Templates ==
    { <<"CEO of ", "{entity}", "?">>,
      <<"CEO of ", "{entity}", " in ", "{year}">>,
      <<"Who is the CEO?">>,
      <<"CEO in ", "{year}">> }

\* query_template.format(entity=entity)
FormatRaises(t) == \E i \in 1..Len(t) : t[i] \in BadFields
FormatError(t) == <<"'year'">>
Format(t, entity) == [i \in 1..Len(t) |-> IF t[i] = PLACEHOLDER THEN entity ELSE t[i]]

\* data[main_column].dropna().unique().tolist()
RECURSIVE Unique(_)
Unique(col) ==
    IF col = <<>> THEN <<>>
    ELSE LET front == Unique(SubSeq(col, 1, Len(col) - 1))
             x == col[Len(col)]
         IN IF x = NULL \/ Contains(front, x) THEN front ELSE Append(front, x)

Columns == SeqsUpTo(Entities \cup {NULL}, MaxRows)

\* ------------------------------------------------------- Python values
\* A value that is None, a str or a list, as the code tells them apart
\* (truthiness, isinstance).
PyNone == [kind |-> "none"]
PyStr(s) == [kind |-> "str", text |-> s]
PyList(xs) == [kind |-> "list", items |-> xs]
Truthy(v) ==
    CASE v.kind = "none" -> FALSE
      [] v.kind = "str" -> v.text # <<>>
      [] v.kind = "list" -> v.items # <<>>

\* d.get(k): the value, or None when the key is absent.
Get(d, k) == IF k \in DOMAIN d THEN d[k] ELSE PyNone

\* ----------------------------------------------------- search backend
\* One organic result as the backend sends it.  A field of a record is a
\* token; a missing field is NULL, an empty string is "", and the token "0"
\* stands for the integer 0 (a position): the three values Python finds falsy.
FalsyFields == {NULL, "", "0"}
RawRecords ==
    { [title |-> "T1", link |-> "L1", snippet |-> "S1", position |-> "1"],
      [title |-> "T2", link |-> "L2", snippet |-> "S2", position |-> "2"],
      [title |-> "T3", link |-> "L3", snippet |-> NULL, position |-> "3"],
      [title |-> "",   link |-> "L4", snippet |-> "S4", position |-> "4"] }

\* Bodies of an ok response: not JSON, JSON that is not an object, an object
\* without "organic_results", or an object with a list of organic results.
Bodies ==
    {[kind |-> "badjson"], [kind |-> "notdict"], [kind |-> "nokey"]}
      \cup {[kind |-> "organic", organic_results |-> rs] : rs \in SeqsUpTo(RawRecords, MaxOrganic)}

\* What one requests.get can do: raise a RequestException, or answer.
Responses ==
    {[kind |-> "neterr"],
     [kind |-> "http", ok |-> FALSE, status_code |-> HTTP_TOO_MANY],
     [kind |-> "http", ok |-> FALSE, status_code |-> 500]}
      \cup {[kind |-> "http", ok |-> TRUE, status_code |-> 200, body |-> b] : b \in Bodies}

NetErrorText == <<"ConnectTimeout">>
JsonErrorText == <<"Expecting value">>
AttrErrorText == <<"'list' object has no attribute 'get'">>
NO_RELEVANT == <<"No relevant results found.">>

\* ------------------------------------------------ SearchEngine (search.py)
\* processed_result of _process_response and the all(...) test on it
ProcessedResult(r) ==
    [title |-> r.title, link |-> r.link, snippet |-> r.snippet, position |-> r.position]
\* AllValues with a record kept as soon as one of its values is there.
AnyValue(p) == \E k \in DOMAIN p : p[k] \notin FalsyFields

AllValues(p) == \A k \in DOMAIN p : p[k] \notin FalsyFields

FilteredResults(organic) ==
    SelectSeq([i \in 1..Len(organic) |-> ProcessedResult(organic[i])], AllValues)

ParseError(entity, text) ==
    [entity |-> entity, search_results |-> PyNone,
     error |-> PyStr(<<"Failed to process results: ">> \o text)]

\* ProcessResponse with the filtered list returned as it is, empty or not.
ProcessResponseNoSentinel(entity, body) ==
    IF body.kind = "badjson" THEN ParseError(entity, JsonErrorText)
    ELSE IF body.kind = "notdict" THEN ParseError(entity, AttrErrorText)
    ELSE LET organic == IF body.kind = "nokey" THEN <<>> ELSE body.organic_results
         IN [entity |-> entity, search_results |-> PyList(FilteredResults(organic))]

\* SearchEngine._process_response
ProcessResponse(entity, body) ==
    IF body.kind = "badjson" THEN ParseError(entity, JsonErrorText)
    ELSE IF body.kind = "notdict" THEN ParseError(entity, AttrErrorText)
    ELSE LET organic == IF body.kind = "nokey" THEN <<>> ELSE body.organic_results
             filtered == FilteredResults(organic)
         IN [entity |-> entity,
             search_results |-> IF filtered # <<>> THEN PyList(filtered) ELSE PyStr(NO_RELEVANT)]

FailedAfter == <<"Request failed after ", ToString(SEARCH_MAX_RETRIES), " attempts">>

RequestFailed(entity, text) ==
    [entity |-> entity, search_results |-> PyNone, error |-> PyStr(text)]

\* LoopEnd with one more pass of the loop than max_retries.
LoopEndExtraPass(entity, att, slept) ==
    IF att + 1 < SEARCH_MAX_RETRIES + 1
    THEN [returns |-> FALSE, slept |-> slept]
    ELSE [returns |-> TRUE, slept |-> slept, outcome |-> RequestFailed(entity, FailedAfter)]

\* The end of one pass of the for loop of _execute_search that did not return:
\* the next pass, or, after the last pass, the return below the loop.
LoopEnd(entity, att, slept) ==
    IF att + 1 < SEARCH_MAX_RETRIES
    THEN [returns |-> FALSE, slept |-> slept]
    ELSE [returns |-> TRUE, slept |-> slept, outcome |-> RequestFailed(entity, FailedAfter)]

\* ExecuteSearchPass without the last-attempt test of the except block.
ExecuteSearchPassNoLastTest(entity, att, resp) ==
    IF resp.kind = "neterr"
    THEN LoopEnd(entity, att, RETRY_DELAY)
    ELSE IF resp.ok
    THEN [returns |-> TRUE, slept |-> 0, outcome |-> ProcessResponse(entity, resp.body)]
    ELSE IF resp.status_code = HTTP_TOO_MANY
    THEN LoopEnd(entity, att, RETRY_DELAY * (att + 1))
    ELSE LoopEnd(entity, att, 0)

\* ExecuteSearchPass with every non-ok response backed off like a 429.
ExecuteSearchPassBacksOffAll(entity, att, resp) ==
    IF resp.kind = "neterr"
    THEN IF att = SEARCH_MAX_RETRIES - 1
         THEN [returns |-> TRUE, slept |-> 0,
               outcome |-> RequestFailed(entity, FailedAfter \o <<": ">> \o NetErrorText)]
         ELSE LoopEnd(entity, att, RETRY_DELAY)
    ELSE IF resp.ok
    THEN [returns |-> TRUE, slept |-> 0, outcome |-> ProcessResponse(entity, resp.body)]
    ELSE LoopEnd(entity, att, RETRY_DELAY * (att + 1))

\* One pass of the for loop of SearchEngine._execute_search, attempt index att,
\* given what requests.get did.
ExecuteSearchPass(entity, att, resp) ==
    IF resp.kind = "neterr"
    THEN IF att = SEARCH_MAX_RETRIES - 1
         THEN [returns |-> TRUE, slept |-> 0,
               outcome |-> RequestFailed(entity, FailedAfter \o <<": ">> \o NetErrorText)]
         ELSE LoopEnd(entity, att, RETRY_DELAY)
    ELSE IF resp.ok
    THEN [returns |-> TRUE, slept |-> 0, outcome |-> ProcessResponse(entity, resp.body)]
    ELSE IF resp.status_code = HTTP_TOO_MANY
    THEN LoopEnd(entity, att, RETRY_DELAY * (att + 1))
    ELSE LoopEnd(entity, att, 0)

\* --------------------------------------------- LLMProcessor (llm_processing.py)
Whitespace == {" ", "\n"}

\* str.strip()
RECURSIVE LStrip(_)
LStrip(s) == IF s # <<>> /\ Head(s) \in Whitespace THEN LStrip(Tail(s)) ELSE s
RECURSIVE RStrip(_)
RStrip(s) ==
    IF s # <<>> /\ s[Len(s)] \in Whitespace THEN RStrip(SubSeq(s, 1, Len(s) - 1)) ELSE s
Strip(s) == RStrip(LStrip(s))

\* response.split('\n')[0]
RECURSIVE FirstLine(_)
FirstLine(s) ==
    IF s = <<>> \/ Head(s) = "\n" THEN <<>> ELSE <<Head(s)>> \o FirstLine(Tail(s))

\* str.startswith(prefix)
StartsWith(s, prefix) ==
    Len(prefix) <= Len(s) /\ SubSeq(s, 1, Len(prefix)) = prefix

\* str.lower(), token by token
LowerToken(tok) ==
    CASE tok = "Not" -> "not"
      [] tok = "NOT" -> "not"
      [] tok = "Found" -> "found"
      [] tok = "FOUND" -> "found"
      [] OTHER -> tok
Lower(s) == [i \in 1..Len(s) |-> LowerToken(s[i])]

NOT_FOUND_LOWER == <<"not", " ", "found">>

\* prefixes_to_remove of _validate_response
PrefixesToRemove(entity) ==
    << <<"Answer", ":">>, <<"Response", ":">>, <<"Result", ":">>,
       <<entity, ":">>, <<"The", " ", "answer", " ", "is", ":">>, <<"Information", ":">> >>

\* RemovePrefixes with the loop left at the first prefix removed.
RECURSIVE RemovePrefixesFirstOnly(_, _, _)
RemovePrefixesFirstOnly(s, prefixes, i) ==
    IF i > Len(prefixes) THEN s
    ELSE IF StartsWith(s, prefixes[i])
         THEN Strip(SubSeq(s, Len(prefixes[i]) + 1, Len(s)))
         ELSE RemovePrefixesFirstOnly(s, prefixes, i + 1)

\* the for loop over prefixes_to_remove, from prefix number i on
RECURSIVE RemovePrefixes(_, _, _)
RemovePrefixes(s, prefixes, i) ==
    IF i > Len(prefixes) THEN s
    ELSE IF StartsWith(s, prefixes[i])
         THEN RemovePrefixes(Strip(SubSeq(s, Len(prefixes[i]) + 1, Len(s))), prefixes, i + 1)
         ELSE RemovePrefixes(s, prefixes, i + 1)

CleanResponse(response, entity) ==
    RemovePrefixes(Strip(FirstLine(response)), PrefixesToRemove(entity), 1)

\* ValidateResponse with the comparison with "not found" made without lower().
ValidateResponseCaseSensitive(response, entity) ==
    LET cleaned_response == CleanResponse(response, entity)
    IN [entity |-> entity,
        extracted_info |-> cleaned_response,
        confidence |-> IF cleaned_response # <<"Not", " ", "found">> THEN 1 ELSE 0]

\* LLMProcessor._validate_response
ValidateResponse(response, entity) ==
    LET cleaned_response == CleanResponse(response, entity)
    IN [entity |-> entity,
        extracted_info |-> cleaned_response,
        confidence |-> IF Lower(cleaned_response) # NOT_FOUND_LOWER THEN 1 ELSE 0]

\* LLMProcessor._format_search_results: the str as it is, or the numbered block
RECURSIVE FormatItems(_, _)
FormatItems(items, idx) ==
    IF idx > Len(items) THEN <<>>
    ELSE <<"Result ", ToString(idx), ":\n",
           "Title: ", items[idx].title, "\n",
           "Snippet: ", items[idx].snippet, "\n",
           "URL: ", items[idx].link, "\n">>
         \o (IF idx < Len(items) THEN <<"\n">> ELSE <<>>)
         \o FormatItems(items, idx + 1)

FormatSearchResultsRaises(search_results) == search_results.kind = "none"
FormatSearchResults(search_results) ==
    IF search_results.kind = "str" THEN search_results.text
    ELSE FormatItems(search_results.items, 1)
NotIterableText == <<"'NoneType' object is not iterable">>

\* LLMProcessor._construct_prompt: the three interpolated parts of the f-string
ConstructPrompt(entity, query_template, formatted_results) ==
    [entity |-> entity,
     query |-> Format(query_template, entity),
     formatted_results |-> formatted_results]

\* What one chat completion can do: raise, return a message without content,
\* or return text.
LLMTexts ==
    { <<"John", " ", "Smith">>,
      <<"Not", " ", "Found">>,
      <<"Answer", ":", " ", "Acme", " ", "Corp", "\n", "Source", ":", " ", "web">>,
      <<"Error", " ", "404">> }
LLMReplies ==
    {[kind |-> "raise"], [kind |-> "nocontent"]}
      \cup {[kind |-> "text", content |-> t] : t \in LLMTexts}
ApiErrorText == <<"APIConnectionError">>
NoStripText == <<"'NoneType' object has no attribute 'strip'">>

\* LLMProcessor._get_llm_response
GetLLMResponseRaises(reply) == reply.kind # "text"
GetLLMResponseError(reply) == IF reply.kind = "raise" THEN ApiErrorText ELSE NoStripText
GetLLMResponse(reply) == Strip(reply.content)

ErrorInProcessing(entity, text) ==
    [entity |-> entity,
     extracted_info |-> <<"Error", " in processing">>,
     confidence |-> 0,
     error |-> text]

\* The outcome of a call: a returned value or a raised exception (its str()),
\* with the prompt sent to the language model, if one was sent.
Returned(value, prompt) == [raised |-> FALSE, value |-> value, prompt |-> prompt]
Raised(text) == [raised |-> TRUE, exc |-> text, prompt |-> PyNone]

\* LLMProcessor._process_single_result.  The prompt is built before the try
\* block is entered; only the model call and the validation are inside it.
ProcessSingleResult(result, query_template, reply) ==
    IF FormatSearchResultsRaises(result.search_results) THEN Raised(NotIterableText)
    ELSE IF FormatRaises(query_template) THEN Raised(FormatError(query_template))
    ELSE LET formatted_results == FormatSearchResults(result.search_results)
             prompt == ConstructPrompt(result.entity, query_template, formatted_results)
         IN IF GetLLMResponseRaises(reply)
            THEN Returned(ErrorInProcessing(result.entity, GetLLMResponseError(reply)), prompt)
            ELSE Returned(ValidateResponse(GetLLMResponse(reply), result.entity), prompt)

NotFound(entity) == [entity |-> entity, extracted_info |-> <<"Not", " ", "found">>, confidence |-> 0]

\* ShortCircuits with the "no relevant results" str taken for no results.
ShortCircuitsOnSentinel(result) ==
    \/ ~Truthy(Get(result, "search_results")) \/ Truthy(Get(result, "error"))
    \/ Get(result, "search_results").kind = "str"

\* The test at the head of the loop body of LLMProcessor.process_results
ShortCircuits(result) ==
    ~Truthy(Get(result, "search_results")) \/ Truthy(Get(result, "error"))

\* ------------------------------------------------------------------ state
VARIABLES
    pc,               \* where the program is
    query_template,   \* the query the user entered
    max_retries,      \* process_entity_with_retry's max_retries
    entities,         \* process_data: the unique, non-empty entities
    idx,              \* process_data: index (from 1) of the entity in progress
    results,          \* process_data: results
    failed_entities,  \* process_data: failed_entities
    invoked,          \* the entities process_entity_with_retry was called with
    attempt,          \* process_entity_with_retry: attempt
    last_error,       \* process_entity_with_retry: str(e) of the last exception
    sattempt,         \* _execute_search: attempt
    search_result,    \* process_entity_with_retry: search_result
    last_pass,        \* what the last pass of _execute_search's loop did
    requests,         \* requests.get calls made for the entity in progress
    search_errors,    \* _execute_search calls that returned an error, same entity
    extractions,      \* _process_single_result calls, same entity
    llm_calls,        \* chat completions, same entity
    waited,           \* time slept by process_entity_with_retry, same entity
    search_waited,    \* time slept by _execute_search, same entity
    inbox             \* process_results: the results still to process

batch_vars == <<entities, idx, results, failed_entities, invoked>>
entity_vars == <<attempt, last_error, waited>>
search_vars == <<sattempt, search_result, last_pass, requests, search_errors, search_waited>>
llm_vars == <<extractions, llm_calls>>
input_vars == <<query_template, max_retries, inbox>>
vars == <<pc, batch_vars, entity_vars, search_vars, llm_vars, input_vars>>

NoPass == [kind |-> "none", attempt |-> 0, slept |-> 0, returns |-> FALSE]
NoResult == [entity |-> NULL, search_results |-> PyNone]

entity == entities[idx]

\* ------------------------------------------------ AIAgentApp (main.py)
ErrorResult(e, text) == [entity |-> e, extracted_info |-> <<"Error", ": ">> \o text]
FallbackResult(e) == [entity |-> e, extracted_info |-> <<"Failed after all retries">>]

\* MarksFailed with only the results process_entity_with_retry built itself
\* (those without a confidence) taken for failures.
MarksFailedNoConfidence(result) ==
    /\ "confidence" \notin DOMAIN result
    /\ "extracted_info" \in DOMAIN result /\ Contains(result.extracted_info, "Error")

\* "Error" in str(result.get('extracted_info', ''))
MarksFailed(result) ==
    "extracted_info" \in DOMAIN result /\ Contains(result.extracted_info, "Error")

\* Collect with a failed entity's result left out of results.
CollectDropsFailed(outcome) ==
    /\ results' = IF outcome.raised \/ MarksFailed(outcome.value) THEN results
                  ELSE Append(results, outcome.value)
    /\ failed_entities' =
           IF outcome.raised \/ MarksFailed(outcome.value)
           THEN Append(failed_entities, entity) ELSE failed_entities
    /\ idx' = idx + 1
    /\ pc' = "loop"
    /\ UNCHANGED <<entities, invoked>>

\* Collect with the batch ended by the first failed entity.
CollectAbortsOnFailure(outcome) ==
    /\ results' = Append(results,
                         IF outcome.raised THEN ErrorResult(entity, outcome.exc)
                         ELSE outcome.value)
    /\ failed_entities' =
           IF outcome.raised \/ MarksFailed(outcome.value)
           THEN Append(failed_entities, entity) ELSE failed_entities
    /\ idx' = idx + 1
    /\ pc' = IF outcome.raised \/ MarksFailed(outcome.value) THEN "done" ELSE "loop"
    /\ UNCHANGED <<entities, invoked>>

\* process_data, the body of the for loop after process_entity_with_retry
\* returned a result or raised: append the result, note a failed entity, and
\* go on to the next entity.
Collect(outcome) ==
    /\ results' = Append(results,
                         IF outcome.raised THEN ErrorResult(entity, outcome.exc)
                         ELSE outcome.value)
    /\ failed_entities' =
           IF outcome.raised \/ MarksFailed(outcome.value)
           THEN Append(failed_entities, entity) ELSE failed_entities
    /\ idx' = idx + 1
    /\ pc' = "loop"
    /\ UNCHANGED <<entities, invoked>>

\* HandleException with the fallback result returned on the last attempt.
HandleExceptionFallback(text) ==
    /\ last_error' = text
    /\ IF attempt = max_retries - 1
       THEN /\ Collect(Returned(FallbackResult(entity), PyNone))
            /\ UNCHANGED <<attempt, waited>>
       ELSE /\ waited' = waited + Pow2(attempt)
            /\ attempt' = attempt + 1
            /\ pc' = "attempt"
            /\ UNCHANGED batch_vars

\* HandleException with the backoff sleep taken before the last-attempt test.
HandleExceptionSleepsFirst(text) ==
    /\ last_error' = text
    /\ waited' = waited + Pow2(attempt)
    /\ IF attempt = max_retries - 1
       THEN /\ Collect(Returned(ErrorResult(entity, text), PyNone))
            /\ UNCHANGED attempt
       ELSE /\ attempt' = attempt + 1
            /\ pc' = "attempt"
            /\ UNCHANGED batch_vars

\* HandleException with the error result returned one attempt early.
HandleExceptionGivesUpEarly(text) ==
    /\ last_error' = text
    /\ IF attempt >= max_retries - 2
       THEN /\ Collect(Returned(ErrorResult(entity, text), PyNone))
            /\ UNCHANGED <<attempt, waited>>
       ELSE /\ waited' = waited + Pow2(attempt)
            /\ attempt' = attempt + 1
            /\ pc' = "attempt"
            /\ UNCHANGED batch_vars

\* process_entity_with_retry, the except block: the result of the last
\* attempt, or the backoff sleep before the next one.
HandleException(text) ==
    /\ last_error' = text
    /\ IF attempt = max_retries - 1
       THEN /\ Collect(Returned(ErrorResult(entity, text), PyNone))
            /\ UNCHANGED <<attempt, waited>>
       ELSE /\ waited' = waited + Pow2(attempt)
            /\ attempt' = attempt + 1
            /\ pc' = "attempt"
            /\ UNCHANGED batch_vars

\* StartProcess without the test for the placeholder.
StartProcessNoValidation ==
    /\ pc = "idle"
    /\ \E template \in Templates, column \in Columns :
         /\ query_template' = template
         /\ LET unique == Unique(column)
            IN IF unique = <<>>
               THEN pc' = "empty" /\ UNCHANGED entities
               ELSE pc' = "loop" /\ entities' = unique
    /\ UNCHANGED <<idx, results, failed_entities, invoked>>
    /\ UNCHANGED <<entity_vars, search_vars, llm_vars, max_retries, inbox>>

\* AIAgentApp.run, the Start Process button, with the query the user entered
\* and the entity column of the table, and the head of process_data.
StartProcess ==
    /\ pc = "idle"
    /\ \E template \in Templates, column \in Columns :
         /\ query_template' = template
         /\ IF ~Contains(template, PLACEHOLDER)
            THEN pc' = "rejected" /\ UNCHANGED entities
            ELSE LET unique == Unique(column)
                 IN IF unique = <<>>
                    THEN pc' = "empty" /\ UNCHANGED entities
                    ELSE pc' = "loop" /\ entities' = unique
    /\ UNCHANGED <<idx, results, failed_entities, invoked>>
    /\ UNCHANGED <<entity_vars, search_vars, llm_vars, max_retries, inbox>>

\* NextEntity with the attempt counter and the last error of the entity
\* before carried over to the next one.
NextEntityKeepsRetryState ==
    /\ pc = "loop"
    /\ idx <= Len(entities)
    /\ invoked' = Append(invoked, entity)
    /\ UNCHANGED <<attempt, last_error>>
    /\ waited' = 0
    /\ sattempt' = 0 /\ search_result' = NoResult /\ last_pass' = NoPass
    /\ requests' = 0 /\ search_errors' = 0 /\ search_waited' = 0
    /\ extractions' = 0 /\ llm_calls' = 0
    /\ IF max_retries <= 0
       THEN /\ results' = Append(results, FallbackResult(entity))
            /\ failed_entities' = failed_entities
            /\ idx' = idx + 1
            /\ pc' = "loop"
            /\ UNCHANGED entities
       ELSE /\ pc' = "attempt"
            /\ UNCHANGED <<entities, idx, results, failed_entities>>
    /\ UNCHANGED input_vars

\* process_data, the head of the for loop: the call of
\* process_entity_with_retry for the next entity.
NextEntity ==
    /\ pc = "loop"
    /\ idx <= Len(entities)
    /\ invoked' = Append(invoked, entity)
    /\ attempt' = 0 /\ last_error' = <<>> /\ waited' = 0
    /\ sattempt' = 0 /\ search_result' = NoResult /\ last_pass' = NoPass
    /\ requests' = 0 /\ search_errors' = 0 /\ search_waited' = 0
    /\ extractions' = 0 /\ llm_calls' = 0
    /\ IF max_retries <= 0
       THEN /\ results' = Append(results, FallbackResult(entity))
            /\ failed_entities' = failed_entities
            /\ idx' = idx + 1
            /\ pc' = "loop"
            /\ UNCHANGED entities
       ELSE /\ pc' = "attempt"
            /\ UNCHANGED <<entities, idx, results, failed_entities>>
    /\ UNCHANGED input_vars

\* process_entity_with_retry, the head of the try block: the query is
\* formatted and _execute_search is entered.
StartAttempt ==
    /\ pc = "attempt"
    /\ IF FormatRaises(query_template)
       THEN /\ HandleException(FormatError(query_template))
            /\ UNCHANGED sattempt
       ELSE /\ pc' = "search"
            /\ sattempt' = 0
            /\ UNCHANGED <<batch_vars, entity_vars>>
    /\ UNCHANGED <<search_result, last_pass, requests, search_errors, search_waited>>
    /\ UNCHANGED <<llm_vars, input_vars>>

\* One pass of the loop of _execute_search; when the call returns, the test
\* of search_result.get('error') in process_entity_with_retry.
SearchRequest ==
    /\ pc = "search"
    /\ \E resp \in Responses :
         LET pass == ExecuteSearchPass(entity, sattempt, resp)
         IN /\ requests' = requests + 1
            /\ search_waited' = search_waited + pass.slept
            /\ last_pass' = [kind |-> IF resp.kind = "neterr" THEN "neterr"
                                      ELSE ToString(resp.status_code),
                             attempt |-> sattempt,
                             slept |-> pass.slept,
                             returns |-> pass.returns]
            /\ IF ~pass.returns
               THEN /\ sattempt' = sattempt + 1
                    /\ UNCHANGED <<pc, search_result, search_errors>>
                    /\ UNCHANGED <<batch_vars, entity_vars>>
               ELSE /\ search_result' = pass.outcome
                    /\ UNCHANGED sattempt
                    /\ IF Truthy(Get(pass.outcome, "error"))
                       THEN /\ search_errors' = search_errors + 1
                            /\ HandleException(pass.outcome.error.text)
                       ELSE /\ pc' = "extract"
                            /\ UNCHANGED search_errors
                            /\ UNCHANGED <<batch_vars, entity_vars>>
    /\ UNCHANGED <<llm_vars, input_vars>>

\* Extract with a result that reports an error raised as a failure of the
\* attempt.
ExtractRetriesOnError ==
    /\ pc = "extract"
    /\ \E reply \in LLMReplies :
         LET outcome == ProcessSingleResult(search_result, query_template, reply)
         IN /\ extractions' = extractions + 1
            /\ llm_calls' = llm_calls + (IF outcome.prompt = PyNone THEN 0 ELSE 1)
            /\ IF outcome.raised
               THEN HandleException(outcome.exc)
               ELSE IF "error" \in DOMAIN outcome.value
                    THEN HandleException(outcome.value.error)
                    ELSE Collect(outcome) /\ UNCHANGED entity_vars
    /\ UNCHANGED <<search_vars, input_vars>>

\* process_entity_with_retry, the LLM processing phase and its return.
Extract ==
    /\ pc = "extract"
    /\ \E reply \in LLMReplies :
         LET outcome == ProcessSingleResult(search_result, query_template, reply)
         IN /\ extractions' = extractions + 1
            /\ llm_calls' = llm_calls + (IF outcome.prompt = PyNone THEN 0 ELSE 1)
            /\ IF outcome.raised
               THEN HandleException(outcome.exc)
               ELSE Collect(outcome) /\ UNCHANGED entity_vars
    /\ UNCHANGED <<search_vars, input_vars>>

\* process_data, after the for loop: the results are displayed.
Finish ==
    /\ pc = "loop"
    /\ idx > Len(entities)
    /\ pc' = "done"
    /\ UNCHANGED <<batch_vars, entity_vars, search_vars, llm_vars, input_vars>>

Init ==
    /\ pc = "idle"
    /\ query_template = <<>>
    /\ max_retries = DEFAULT_MAX_RETRIES
    /\ entities = <<>> /\ idx = 1 /\ results = <<>> /\ failed_entities = <<>>
    /\ invoked = <<>>
    /\ attempt = 0 /\ last_error = <<>> /\ waited = 0
    /\ sattempt = 0 /\ search_result = NoResult /\ last_pass = NoPass
    /\ requests = 0 /\ search_errors = 0 /\ search_waited = 0
    /\ extractions = 0 /\ llm_calls = 0
    /\ inbox = <<>>

Next == StartProcess \/ NextEntity \/ StartAttempt \/ SearchRequest \/ Extract \/ Finish

Spec == Init /\ [][Next]_vars

\* ------------------------------------ LLMProcessor.process_results as an entry
\* The outcomes _execute_search can return for an entity.
SearchOutcomes(e) ==
    { ExecuteSearchPass(e, att, resp).outcome :
        <<att, resp>> \in { x \in (0..(SEARCH_MAX_RETRIES - 1)) \X Responses :
                              ExecuteSearchPass(e, x[1], x[2]).returns } }
AllSearchOutcomes == UNION {SearchOutcomes(e) : e \in Entities}

\* The call of process_results with the outcomes of a search and a query.
StartResults ==
    /\ pc = "idle"
    /\ \E template \in Templates, outcomes \in SeqsUpTo(AllSearchOutcomes, MaxResults) :
         /\ query_template' = template
         /\ inbox' = outcomes
    /\ pc' = "results_loop"
    /\ UNCHANGED <<batch_vars, entity_vars, search_vars, llm_vars, max_retries>>

\* process_results, one pass of the for loop.  An exception that
\* _process_single_result raises leaves process_results: nothing catches it.
ProcessResult ==
    /\ pc = "results_loop"
    /\ inbox # <<>>
    /\ LET result == Head(inbox)
       IN /\ search_result' = result
          /\ extractions' = IF ShortCircuits(result) THEN 0 ELSE 1
          /\ IF ShortCircuits(result)
             THEN /\ results' = Append(results, NotFound(result.entity))
                  /\ llm_calls' = 0
                  /\ pc' = "results_loop"
                  /\ inbox' = Tail(inbox)
                  /\ UNCHANGED last_error
             ELSE \E reply \in LLMReplies :
                    LET outcome == ProcessSingleResult(result, query_template, reply)
                    IN /\ llm_calls' = IF outcome.prompt = PyNone THEN 0 ELSE 1
                       /\ IF outcome.raised
                          THEN /\ pc' = "raised"
                               /\ last_error' = outcome.exc
                               /\ UNCHANGED <<results, inbox>>
                          ELSE /\ results' = Append(results, outcome.value)
                               /\ pc' = "results_loop"
                               /\ inbox' = Tail(inbox)
                               /\ UNCHANGED last_error
    /\ UNCHANGED <<entities, idx, failed_entities, invoked, attempt, waited>>
    /\ UNCHANGED <<sattempt, last_pass, requests, search_errors, search_waited>>
    /\ UNCHANGED <<query_template, max_retries>>

\* process_results, after the for loop: the DataFrame is returned.
ResultsDone ==
    /\ pc = "results_loop"
    /\ inbox = <<>>
    /\ pc' = "results_done"
    /\ UNCHANGED <<batch_vars, entity_vars, search_vars, llm_vars, input_vars>>

NextResults == StartResults \/ ProcessResult \/ ResultsDone

SpecResults == Init /\ [][NextResults]_vars

\* ------------------------------- LLMProcessor._validate_response as an entry
\* Raw texts of the language model: up to MaxPrefixes of the prefixes of
\* _validate_response, each followed by sep, and then a body.
RECURSIVE JoinPrefixes(_, _, _)
JoinPrefixes(chain, prefixes, sep) ==
    IF chain = <<>> THEN <<>>
    ELSE prefixes[Head(chain)] \o sep \o JoinPrefixes(Tail(chain), prefixes, sep)

ValidateBodies ==
    { <<"Acme", " ", "Corp">>, <<"John", " ", "Smith">>,
      <<"Not", " ", "found">>, <<"Not", " ", "Found">>, <<"NOT", " ", "FOUND">>,
      <<"not", " ", "found", " ">>,
      <<"Not", " ", "found", "\n", "Source", ":", " ", "web">>,
      <<"Not", " ", "found", " ", "here">>,
      <<>> }

RawInputs ==
    { [entity |-> e, chain |-> chain, body |-> body,
       raw |-> JoinPrefixes(chain, PrefixesToRemove(e), sep) \o body] :
        e \in Entities, chain \in SeqsUpTo(1..6, MaxPrefixes),
        sep \in {<<>>, <<" ">>}, body \in ValidateBodies }

\* The call _validate_response(response, entity).
ValidateCall ==
    /\ pc = "idle"
    /\ \E input \in RawInputs :
         /\ inbox' = <<input>>
         /\ results' = <<ValidateResponse(input.raw, input.entity)>>
    /\ pc' = "validated"
    /\ UNCHANGED <<entities, idx, failed_entities, invoked>>
    /\ UNCHANGED <<entity_vars, search_vars, llm_vars, query_template, max_retries>>

NextValidate == ValidateCall

SpecValidate == Init /\ [][NextValidate]_vars

\* ----------------------------- SearchEngine._process_response as an entry
\* Organic results with every field there, or with one field missing or empty.
FilterRecords ==
    { [title |-> "T1", link |-> "L1", snippet |-> "S1", position |-> "1"],
      [title |-> "T2", link |-> "L2", snippet |-> "S2", position |-> "2"],
      [title |-> NULL, link |-> "L3", snippet |-> "S3", position |-> "3"],
      [title |-> "T4", link |-> NULL, snippet |-> "S4", position |-> "4"],
      [title |-> "T5", link |-> "L5", snippet |-> NULL, position |-> "5"],
      [title |-> "T6", link |-> "L6", snippet |-> "S6", position |-> NULL],
      [title |-> "T7", link |-> "L7", snippet |-> "",   position |-> "7"] }

FilterBodies ==
    {[kind |-> "nokey"]}
      \cup {[kind |-> "organic", organic_results |-> rs] : rs \in SeqsUpTo(FilterRecords, MaxFilter)}

\* The call _process_response(entity, response) for an ok response.
ProcessResponseCall ==
    /\ pc = "idle"
    /\ \E e \in Entities, body \in FilterBodies :
         /\ inbox' = <<[entity |-> e, body |-> body]>>
         /\ search_result' = ProcessResponse(e, body)
    /\ pc' = "responded"
    /\ UNCHANGED <<batch_vars, entity_vars, llm_vars, query_template, max_retries>>
    /\ UNCHANGED <<sattempt, last_pass, requests, search_errors, search_waited>>

NextFilter == ProcessResponseCall

SpecFilter == Init /\ [][NextFilter]_vars

\* ------------------------------------------------------------------------
\* process_entity_with_retry called for one entity with a max_retries of the
\* caller's choice (the parameter defaults to 3, which is what process_data
\* uses).
MaxRetriesArg == 3

CallProcessEntity ==
    /\ pc = "idle"
    /\ \E e \in Entities, template \in Templates, retries \in 0..MaxRetriesArg :
         /\ entities' = <<e>>
         /\ query_template' = template
         /\ max_retries' = retries
    /\ pc' = "loop"
    /\ UNCHANGED <<idx, results, failed_entities, invoked>>
    /\ UNCHANGED <<entity_vars, search_vars, llm_vars, inbox>>

NextEntityCall ==
    CallProcessEntity \/ NextEntity \/ StartAttempt \/ SearchRequest \/ Extract \/ Finish

SpecEntity == Init /\ [][NextEntityCall]_vars

\* ================================================================ claims
Last(s) == s[Len(s)]

\* s has the tokens of sub in a row
ContainsSeq(s, sub) ==
    \E i \in 1..(Len(s) - Len(sub) + 1) : SubSeq(s, i, i + Len(sub) - 1) = sub

\* process_entity_with_retry is running for entities[idx]
InEntity == pc \in {"attempt", "search", "extract"}
\* process_entity_with_retry has returned for entities[idx - 1], and the
\* counters are those of that call
EntityFinished == pc \in {"loop", "done"} /\ idx > 1
\* ... after every attempt failed
Exhausted == EntityFinished /\ extractions = 0

\* C1: the batch calls process_entity_with_retry once per entity, in input
\* order, and collects one result per call: while an entity is in progress it is
\* the only one called without a result yet, the i-th result is for the i-th
\* entity, the entity list has no duplicate and no empty value, and at the end
\* there are as many results as entities.
C1_OneResultPerEntity ==
    /\ \A i, j \in 1..Len(entities) : entities[i] # NULL /\ (i # j => entities[i] # entities[j])
    /\ invoked = SubSeq(entities, 1, Len(invoked))
    /\ Len(invoked) = Len(results) + (IF InEntity THEN 1 ELSE 0)
    /\ \A i \in 1..Len(results) : results[i].entity = entities[i]
    /\ pc = "done" => Len(results) = Len(entities) /\ invoked = entities

\* witness of C1: a batch of two entities is done, the first one having failed
\* after retries
C1_Witness ==
    /\ pc = "done" /\ Len(entities) = 2
    /\ failed_entities = <<entities[1]>>
    /\ "confidence" \notin DOMAIN results[1]
    /\ results[2].entity = entities[2]

\* C2: when _execute_search returned an error on each of the max_retries
\* attempts for an entity, the extracted_info of the entity's result contains
\* the (non-empty) error text of the last search, the result has no confidence,
\* and the entity is in failed_entities.
C2_SearchExhaustion ==
    (EntityFinished /\ search_errors = max_retries) =>
        /\ Truthy(Get(search_result, "error"))
        /\ Last(results).entity = entities[idx - 1]
        /\ search_result.error.text # <<>>
        /\ ContainsSeq(Last(results).extracted_info, search_result.error.text)
        /\ "confidence" \notin DOMAIN Last(results)
        /\ Contains(failed_entities, entities[idx - 1])

\* witness of C2: the second entity of a batch exhausted its attempts on search
\* errors
C2_Witness ==
    /\ pc = "done" /\ Len(results) = 2
    /\ search_errors = max_retries
    /\ Contains(failed_entities, entities[2])

\* process_results has taken search_result, the head of its input, through
\* one pass of its loop
ResultProcessed == pc \in {"results_loop", "results_done", "raised"} /\ search_result # NoResult
IsSentinel(result) == result.search_results = PyStr(NO_RELEVANT)
HasErrorOrNoResults(result) ==
    Truthy(Get(result, "error")) \/ result.search_results = PyNone

\* C3 as stated: an outcome that carries the "no relevant results" str, an
\* error, or no results is answered "Not found" with confidence 0.0 and without
\* a chat completion.
C3_Original ==
    (ResultProcessed /\ (IsSentinel(search_result) \/ HasErrorOrNoResults(search_result))) =>
        /\ llm_calls = 0
        /\ pc # "raised" => Last(results) = NotFound(search_result.entity)

\* C3 as amended: process_results answers an outcome that carries an error
\* or no results with "Not found", confidence 0.0, without a chat completion and
\* without calling _process_single_result; an outcome that carries the "no
\* relevant results" str is not short-circuited: it goes to
\* _process_single_result, which, when the query formats, makes one chat
\* completion and returns what the reply gives.
C3_ShortCircuit ==
    ResultProcessed =>
        /\ HasErrorOrNoResults(search_result) =>
              /\ llm_calls = 0 /\ extractions = 0 /\ pc # "raised"
              /\ Last(results) = NotFound(search_result.entity)
        /\ IsSentinel(search_result) =>
              /\ extractions = 1
              /\ llm_calls = (IF FormatRaises(query_template) THEN 0 ELSE 1)
              /\ FormatRaises(query_template) <=> pc = "raised"

\* witness of C3: after an error outcome was short-circuited, an outcome with
\* the "no relevant results" str went to the language model, whose answer is
\* the result
C3_Witness ==
    /\ ResultProcessed /\ Len(results) = 2
    /\ results[1] = NotFound(results[1].entity)
    /\ IsSentinel(search_result) /\ llm_calls = 1
    /\ results[2].extracted_info = <<"John", " ", "Smith">>
    /\ results[2].confidence = 1

\* C4 as stated: _process_single_result never raises to its caller.
C4_NeverRaises == pc # "raised"

\* the entity the counters and search_result belong to
CurrentEntity == IF InEntity THEN entities[idx] ELSE entities[idx - 1]

\* C5: _process_single_result runs only on a search outcome without error, at
\* most once per call of process_entity_with_retry, on the first attempt whose
\* search carried no error (every earlier attempt was a search error); once it
\* has run the call has returned its result, even one that reports an error, so
\* no sleep and no search request comes after it.
C5_ExtractionIsTerminal ==
    /\ pc = "extract" =>
          /\ extractions = 0
          /\ search_result # NoResult /\ ~Truthy(Get(search_result, "error"))
          /\ search_errors = attempt
    /\ extractions >= 1 =>
          /\ extractions = 1
          /\ EntityFinished
          /\ ~Truthy(Get(search_result, "error"))
          /\ search_errors = attempt
          /\ Last(results).entity = entities[idx - 1]
          /\ "confidence" \in DOMAIN Last(results)

\* witness of C5: the second attempt's search succeeded after the first one's
\* failed, and the extraction's result, which reports an error, was returned
C5_Witness ==
    /\ pc = "loop" /\ extractions = 1 /\ attempt = 1 /\ search_errors = 1
    /\ "error" \in DOMAIN Last(results)
    /\ Last(results).extracted_info = <<"Error", " in processing">>

\* C6 as stated: when all three attempts fail, the total wait while processing
\* the entity is 3.
C6_Original == Exhausted => waited + search_waited = Pow2(0) + Pow2(1)

\* C6 as amended: the backoff process_entity_with_retry itself sleeps is 2^k
\* after failed attempt k < 2 and nothing after the last attempt, 3 in all when
\* the three attempts fail; the sleeps of _execute_search inside the attempts
\* (up to 2 + 4 + 6 per call) come on top of it.
C6_BackoffTiming ==
    /\ (InEntity \/ EntityFinished) =>
          /\ waited = Pow2(attempt) - 1
          /\ search_waited <= (attempt + 1) * RETRY_DELAY * (1 + 2 + 3)
    /\ Exhausted =>
          /\ attempt = max_retries - 1
          /\ waited = Pow2(0) + Pow2(1)
          /\ waited + search_waited >= Pow2(0) + Pow2(1)

\* witness of C6: three attempts failed, with sleeps inside the searches too
C6_Witness ==
    /\ Exhausted /\ attempt = 2 /\ waited = 3
    /\ search_waited = 36

\* C7: a failed entity does not end the batch: whenever the program has not
\* reached one of its ends a step is possible, after a result (failed or not)
\* that is not the last the next entity's call is the step, and the batch is done
\* only when every entity was called and has its result.
C7_ErrorIsolation ==
    /\ pc \notin {"done", "rejected", "empty"} => ENABLED Next
    /\ (pc = "loop" /\ idx <= Len(entities)) => ENABLED NextEntity
    /\ \A i \in 1..Len(failed_entities) : Contains(invoked, failed_entities[i])
    /\ pc = "done" =>
          \A i \in 1..Len(entities) :
             /\ i <= Len(invoked) /\ invoked[i] = entities[i]
             /\ i <= Len(results) /\ results[i].entity = entities[i]

\* witness of C7: the first entity exhausted its attempts and the second one
\* was still processed, with success
C7_Witness ==
    /\ pc = "done" /\ Len(entities) = 2
    /\ failed_entities = <<entities[1]>>
    /\ results[1].extracted_info = <<"Error", ": ">> \o FailedAfter
    /\ "confidence" \in DOMAIN results[2] /\ results[2].confidence = 1

ErrorShape(r) == Truthy(Get(r, "error")) /\ r.search_results = PyNone
ResultsShape(r) ==
    /\ "error" \notin DOMAIN r
    /\ \/ r.search_results = PyStr(NO_RELEVANT)
       \/ r.search_results.kind = "list" /\ r.search_results.items # <<>>

\* C8: what _execute_search returns has an error and null search_results, or no
\* error and search_results that are a non-empty list or the "no relevant
\* results" str, never both and never an empty list; a response that cannot
\* be parsed gives the first shape.
C8_OutcomeShape ==
    search_result # NoResult =>
        /\ search_result.entity = CurrentEntity
        /\ ErrorShape(search_result) \/ ResultsShape(search_result)
        /\ ~(ErrorShape(search_result) /\ ResultsShape(search_result))
        /\ (last_pass.kind = "200" /\ ErrorShape(search_result)) =>
              StartsWith(search_result.error.text, <<"Failed to process results: ">>)

\* witness of C8: a response that was not JSON gave an error outcome
C8_Witness ==
    /\ last_pass.kind = "200" /\ last_pass.returns
    /\ search_result.search_results = PyNone
    /\ search_result.error.text = <<"Failed to process results: ">> \o JsonErrorText

\* C9: a call of _execute_search makes at most 3 requests; a network failure
\* on attempt 0 or 1 is followed by a sleep of retry_delay and another
\* request; a network failure on attempt 2 returns without a sleep the error
\* "Request failed after 3 attempts: <exception>", whatever came before.
C9_NetworkFailure ==
    /\ sattempt \in 0..(SEARCH_MAX_RETRIES - 1)
    /\ last_pass.attempt \in 0..(SEARCH_MAX_RETRIES - 1)
    /\ requests <= SEARCH_MAX_RETRIES * (attempt + 1)
    /\ last_pass.kind = "neterr" =>
          IF last_pass.attempt < SEARCH_MAX_RETRIES - 1
          THEN /\ last_pass.slept = RETRY_DELAY /\ ~last_pass.returns
               /\ pc = "search" /\ sattempt = last_pass.attempt + 1
               /\ ENABLED SearchRequest
          ELSE /\ last_pass.slept = 0 /\ last_pass.returns
               /\ search_result =
                    RequestFailed(CurrentEntity,
                                  <<"Request failed after ", "3", " attempts">>
                                    \o <<": ">> \o NetErrorText)

\* witness of C9: the third request of the first call failed on the network
\* after two rate-limited ones
C9_Witness ==
    /\ last_pass.kind = "neterr" /\ last_pass.attempt = 2 /\ last_pass.returns
    /\ requests = 3 /\ search_waited = 6

\* C10: a non-ok response that is not a 429 causes no sleep; it is followed by
\* the next request, or, on attempt 2, by the return of the error "Request
\* failed after 3 attempts" with null search_results, which is also what a call
\* returns whose last response was a 429.
C10_NonOkFallsThrough ==
    /\ last_pass.kind = "500" =>
          /\ last_pass.slept = 0
          /\ last_pass.attempt < SEARCH_MAX_RETRIES - 1 =>
                ~last_pass.returns /\ pc = "search" /\ sattempt = last_pass.attempt + 1
    /\ (last_pass.returns /\ last_pass.kind \in {"500", "429"}) =>
          /\ last_pass.attempt = SEARCH_MAX_RETRIES - 1
          /\ search_result =
               RequestFailed(CurrentEntity, <<"Request failed after ", "3", " attempts">>)

\* witness of C10: three responses with status 500 ended the first call
C10_Witness ==
    /\ last_pass.kind = "500" /\ last_pass.returns
    /\ requests = 3 /\ search_waited = 0 /\ search_errors = 1

\* "not found" in every mix of cases the texts are written in
NotFoundVariants ==
    { <<n, " ", f>> : n \in {"not", "Not", "NOT"}, f \in {"found", "Found", "FOUND"} }

\* C11: the confidence _validate_response gives is 0 or 1, and it is 0 exactly
\* when the normalized text is "not found" in some mix of upper and lower case;
\* "Answer: Acme Corp" for the entity Acme gives "Acme Corp" with 1, and
\* "Not Found" gives "Not Found" with 0.
C11_Confidence ==
    pc = "validated" =>
        LET r == results[1]
            input == inbox[1]
        IN /\ r.entity = input.entity
           /\ r.confidence \in {0, 1}
           /\ r.confidence = 0 <=> r.extracted_info \in NotFoundVariants
           /\ (input.raw = <<"Answer", ":", " ", "Acme", " ", "Corp">> /\ input.entity = "Acme")
                 => r.extracted_info = <<"Acme", " ", "Corp">> /\ r.confidence = 1
           /\ input.raw = <<"Not", " ", "Found">>
                 => r.extracted_info = <<"Not", " ", "Found">> /\ r.confidence = 0

\* witness of C11: "Answer: Not Found" was normalized to "Not Found", with
\* confidence 0
C11_Witness ==
    /\ pc = "validated"
    /\ inbox[1].raw = <<"Answer", ":", " ", "Not", " ", "Found">>
    /\ results[1].extracted_info = <<"Not", " ", "Found">>
    /\ results[1].confidence = 0

\* s starts with one of the prefixes of _validate_response
HasPrefix(s, e) ==
    \E i \in 1..Len(PrefixesToRemove(e)) : StartsWith(s, PrefixesToRemove(e)[i])
\* the leading prefixes of a raw text come in the order of the list, none twice
InListOrder(chain) == \A i, j \in 1..Len(chain) : i < j => chain[i] < chain[j]

\* C19 as stated: the normalized text starts with none of the six prefixes,
\* and normalizing it again returns it unchanged.
C19_Original ==
    pc = "validated" =>
        /\ ~HasPrefix(results[1].extracted_info, inbox[1].entity)
        /\ CleanResponse(results[1].extracted_info, inbox[1].entity) = results[1].extracted_info

\* C19 as amended: each of the six prefixes is tested once, in the order of
\* the list.  When the prefixes a raw text begins with come in that order, none
\* twice, all of them are removed: the normalized text is the trimmed first line
\* of what follows them, starts with no prefix, and normalizing it again
\* returns it unchanged.  When a prefix is repeated or followed by one that is
\* earlier in the list, removal stops there: the normalized text still starts
\* with a prefix and normalizing it again changes it.
C19_PrefixRemoval ==
    pc = "validated" =>
        LET input == inbox[1]
            text == results[1].extracted_info
        IN IF InListOrder(input.chain)
           THEN /\ text = Strip(FirstLine(input.body))
                /\ ~HasPrefix(text, input.entity)
                /\ CleanResponse(text, input.entity) = text
           ELSE /\ HasPrefix(text, input.entity)
                /\ CleanResponse(text, input.entity) # text

\* witness of C19: "Response: Answer: Acme Corp" was normalized to
\* "Answer: Acme Corp"
C19_Witness ==
    /\ pc = "validated"
    /\ inbox[1].raw = <<"Response", ":", " ", "Answer", ":", " ", "Acme", " ", "Corp">>
    /\ results[1].extracted_info = <<"Answer", ":", " ", "Acme", " ", "Corp">>
    /\ results[1].confidence = 1

RecordFields == {"title", "link", "snippet", "position"}
\* every field of the organic result is there and is not empty
Complete(r) == \A f \in RecordFields : r[f] # NULL /\ r[f] # ""
\* the place in organic of its k-th complete record
KthComplete(organic, k) ==
    CHOOSE i \in 1..Len(organic) :
        /\ Complete(organic[i])
        /\ Cardinality({j \in 1..i : Complete(organic[j])}) = k

\* C12: _process_response keeps exactly the organic results whose four fields
\* are all there and not empty, whole and in their order; when none is kept,
\* or the response has no organic results, search_results is the "no relevant
\* results" str and not an empty list.
C12_Filtering ==
    pc = "responded" =>
        LET body == inbox[1].body
            organic == IF body.kind = "nokey" THEN <<>> ELSE body.organic_results
            kept == {i \in 1..Len(organic) : Complete(organic[i])}
            found == search_result.search_results
        IN /\ "error" \notin DOMAIN search_result
           /\ search_result.entity = inbox[1].entity
           /\ IF kept = {}
              THEN found = PyStr(<<"No relevant results found.">>)
              ELSE /\ found.kind = "list"
                   /\ Len(found.items) = Cardinality(kept)
                   /\ \A k \in 1..Len(found.items) :
                         /\ found.items[k] = organic[KthComplete(organic, k)]
                         /\ DOMAIN found.items[k] = RecordFields

\* witness of C12: of three organic results the one in the middle, without
\* snippet, was dropped and the other two were kept in their order
C12_Witness ==
    /\ pc = "responded"
    /\ inbox[1].body.kind = "organic"
    /\ Len(inbox[1].body.organic_results) = 3
    /\ inbox[1].body.organic_results[2].snippet = NULL
    /\ search_result.search_results.kind = "list"
    /\ Len(search_result.search_results.items) = 2
    /\ search_result.search_results.items[1].title = "T2"
    /\ search_result.search_results.items[2].title = "T1"

\* C13: the query is validated before anything is processed: a query without
\* the placeholder is rejected, and so is a column without entities; after
\* either nothing was called, requested or slept and nothing more happens, and
\* whenever an entity is or was processed the query holds the placeholder.
C13_ValidationFirst ==
    /\ pc \in {"rejected", "empty"} =>
          /\ invoked = <<>> /\ results = <<>> /\ failed_entities = <<>>
          /\ requests = 0 /\ extractions = 0 /\ llm_calls = 0
          /\ waited = 0 /\ search_waited = 0
          /\ ~ENABLED Next
    /\ pc # "idle" => (pc = "rejected" <=> ~Contains(query_template, "{entity}"))
    /\ pc = "empty" => entities = <<>>
    /\ (InEntity \/ invoked # <<>>) =>
          /\ Contains(query_template, "{entity}")
          /\ entities # <<>>

\* witness of C13: a query whose only field is not the placeholder was rejected
C13_Witness ==
    /\ pc = "rejected"
    /\ query_template = <<"CEO in ", "{year}">>
    /\ invoked = <<>> /\ requests = 0

\* The entities of the results whose extracted_info contains "Error", in the
\* order of the results.
RECURSIVE ErrorEntities(_)
ErrorEntities(rs) ==
    IF rs = <<>> THEN <<>>
    ELSE LET rest == ErrorEntities(SubSeq(rs, 1, Len(rs) - 1))
             r == rs[Len(rs)]
         IN IF \E i \in 1..Len(r.extracted_info) : r.extracted_info[i] = "Error"
            THEN Append(rest, r.entity) ELSE rest

\* C14: at every point of the batch the failed-entities list is exactly the
\* list of the processed entities whose result's extracted_info contains
\* "Error", each once and in input order, the i-th result being that of the
\* i-th entity.
C14_FailedEntities ==
    /\ failed_entities = ErrorEntities(results)
    /\ \A i \in 1..Len(results) : results[i].entity = entities[i]
    /\ \A i, j \in 1..Len(failed_entities) :
          failed_entities[i] = failed_entities[j] => i = j

\* witness of C14: at the end of a batch of two, the first entity's answer is
\* clean and the second entity's answer, returned by the language model with
\* confidence 1, contains "Error": the second entity alone is listed
C14_Witness ==
    /\ pc = "done"
    /\ Len(results) = 2
    /\ results[1].extracted_info = <<"John", " ", "Smith">>
    /\ results[2].extracted_info = <<"Error", " ", "404">>
    /\ "confidence" \in DOMAIN results[2] /\ results[2].confidence = 1
    /\ failed_entities = <<entities[2]>>

\* C16: the result "Failed after all retries" is returned only when the retry
\* loop ends without a return: never for max_retries >= 1, whatever the
\* searches and the extraction did, and for max_retries = 0 it is what is
\* returned, without a search request, an extraction, a model call or a wait.
C16_DefensiveFallback ==
    /\ \A i \in 1..Len(results) :
          results[i].extracted_info = <<"Failed after all retries">> <=> max_retries = 0
    /\ (EntityFinished /\ max_retries = 0) =>
          /\ results = <<[entity |-> entities[1],
                          extracted_info |-> <<"Failed after all retries">>]>>
          /\ requests = 0 /\ search_errors = 0 /\ extractions = 0 /\ llm_calls = 0
          /\ waited = 0 /\ search_waited = 0

\* witness of C16: called with max_retries = 0, the call has returned the
\* fallback result
C16_Witness ==
    /\ pc = "done"
    /\ max_retries = 0
    /\ results = <<FallbackResult(entities[1])>>
    /\ requests = 0

\* a call with max_retries = 3 that failed three times returned an "Error: "
\* result, not the fallback
C16_WitnessExhausted ==
    /\ pc = "done"
    /\ max_retries = 3
    /\ attempt = 2 /\ extractions = 0
    /\ results[1].extracted_info # <<"Failed after all retries">>

\* The attempt in progress fails in this step: the query does not format, the
\* search returns an error, or the extraction raises.
AttemptFails ==
    \/ pc = "attempt" /\ pc' # "search"
    \/ pc = "search" /\ search_errors' = search_errors + 1
    \/ pc = "extract" /\ Len(results') = Len(results)

\* C15: process_entity_with_retry is the state machine
\* Attempting(n) -> {Success, Attempting(n+1), ExhaustedFailure}.  The attempt
\* index starts at 0, stays below max_retries and changes only by +1; a failed
\* attempt n < max_retries - 1 is followed by a wait of 2^n and attempt n + 1;
\* a failed attempt n = max_retries - 1 returns the "Error: " result without a
\* wait; the only other return is that of the extraction's result; and after
\* a return no request, extraction, model call or wait happens.
C15_Step ==
    /\ InEntity => attempt \in 0..(max_retries - 1)
    /\ (~InEntity /\ InEntity') => pc' = "attempt" /\ attempt' = 0 /\ waited' = 0
    /\ (InEntity /\ InEntity') =>
          /\ attempt' \in {attempt, attempt + 1}
          /\ (attempt' = attempt + 1) <=> AttemptFails
          /\ AttemptFails =>
                /\ attempt < max_retries - 1
                /\ pc' = "attempt"
                /\ waited' = waited + 2 ^ attempt
                /\ results' = results
          /\ ~AttemptFails => waited' = waited /\ pc' # "attempt"
    /\ (InEntity /\ ~InEntity') =>
          /\ pc' = "loop" /\ attempt' = attempt /\ waited' = waited
          /\ Len(results') = Len(results) + 1
          /\ IF AttemptFails
             THEN /\ attempt = max_retries - 1
                  /\ extractions' = 0
                  /\ Last(results') = [entity |-> entities[idx],
                                       extracted_info |-> <<"Error", ": ">> \o last_error']
             ELSE /\ pc = "extract"
                  /\ extractions' = 1
                  /\ "confidence" \in DOMAIN Last(results')
    /\ (~InEntity /\ ~InEntity') =>
          UNCHANGED <<attempt, waited, requests, search_waited, extractions, llm_calls>>
C15_StateMachine == [][C15_Step]_vars

\* witness of C15: with max_retries = 3, attempts 0, 1 and 2 failed, the waits
\* were 1 and 2, and the "Error: " result was returned
C15_Witness ==
    /\ pc = "loop" /\ idx = 2
    /\ max_retries = 3
    /\ attempt = 2 /\ waited = 3 /\ extractions = 0
    /\ results = <<ErrorResult(entities[1], last_error)>>

\* C17: in _execute_search a 429 response on attempt i is followed by a wait
\* of retry_delay * (i + 1), and every wait of _execute_search comes before
\* another request of the same call: the pass that waited does not end the
\* call, and the third (final) attempt waits after no kind of failure.
C17_WaitBeforeNextAttempt ==
    /\ last_pass.kind = "429" => last_pass.slept = RETRY_DELAY * (last_pass.attempt + 1)
    /\ last_pass.slept > 0 => ~last_pass.returns
    /\ last_pass.attempt = SEARCH_MAX_RETRIES - 1 => last_pass.slept = 0

\* The part of C17 the code keeps: the length of the wait after a 429, and no
\* wait after a final attempt that failed otherwise.
C17_WaitLength ==
    /\ last_pass.kind = "429" => last_pass.slept = RETRY_DELAY * (last_pass.attempt + 1)
    /\ (last_pass.slept > 0 /\ last_pass.returns) => last_pass.kind = "429"
    /\ (last_pass.attempt = SEARCH_MAX_RETRIES - 1 /\ last_pass.kind # "429") =>
          last_pass.slept = 0

\* The third request of a call was answered 429: the call slept 6 and then
\* returned its error.
C17_FinalWait ==
    /\ last_pass.kind = "429" /\ last_pass.attempt = 2
    /\ last_pass.slept = 6 /\ last_pass.returns
    /\ search_result.error = PyStr(FailedAfter)

\* The steps one attempt of process_entity_with_retry can take (the query is
\* formatted, SEARCH_MAX_RETRIES requests, the extraction), the steps one
\* entity can take and the steps the batch has left.
AttemptSteps == SEARCH_MAX_RETRIES + 2
EntitySteps == DEFAULT_MAX_RETRIES * AttemptSteps + 2
EntityRank ==
    IF pc = "attempt" THEN (max_retries - attempt) * AttemptSteps
    ELSE IF pc = "search" THEN (max_retries - attempt) * AttemptSteps - 1 - sattempt
    ELSE (max_retries - attempt) * AttemptSteps - AttemptSteps + 1
Rank ==
    IF pc = "idle" THEN Cardinality(Entities) * EntitySteps + 2
    ELSE IF pc = "loop" THEN (Len(entities) - idx + 1) * EntitySteps + 1
    ELSE IF InEntity THEN (Len(entities) - idx) * EntitySteps + 1 + EntityRank
    ELSE 0

\* C18: process_entity_with_retry terminates and the batch reaches its end
\* whatever the backends answer: every step lowers a rank that is a natural
\* number, and a step is possible until the batch is done (or was rejected);
\* with max_retries = 3 one entity costs at most 3 x 3 = 9 search requests
\* and at most 1 model invocation.
C18_Resources ==
    /\ requests <= 9 /\ requests <= SEARCH_MAX_RETRIES * max_retries
    /\ sattempt < SEARCH_MAX_RETRIES
    /\ extractions <= 1 /\ llm_calls <= 1
    /\ Rank \in Nat
    /\ InEntity => EntityRank >= 1
    /\ pc \notin {"done", "rejected", "empty"} => ENABLED Next
C18_Termination == []C18_Resources /\ [][Rank' < Rank]_vars

\* witness of C18: the batch of two entities is complete and the second
\* entity took all 9 requests
C18_Witness ==
    /\ pc = "done"
    /\ Len(entities) = 2 /\ Len(results) = 2
    /\ requests = 9 /\ llm_calls = 0

\* The result of the entity in progress is one its own state determines: the
\* "Error: " result of its last error, or what the extraction makes of its
\* own search result and one reply of the language model.
OwnResult(r) ==
    \/ r = [entity |-> entities[idx], extracted_info |-> <<"Error", ": ">> \o last_error']
    \/ /\ search_result.entity = entities[idx]
       /\ \E reply \in LLMReplies :
             LET outcome == ProcessSingleResult(search_result, query_template, reply)
             IN ~outcome.raised /\ r = outcome.value

\* C20: retry state is local to one entity.  Each entity starts with attempt
\* 0, no last error, no search result and no request or wait counted,
\* whatever the entities before it went through; each call of _execute_search
\* starts at its attempt 0; while the entity is processed its waits, requests
\* and failures are those its own attempt counter accounts for; its result is
\* made of its own last error or its own search result; and the results and
\* failures recorded for earlier entities are never changed.
C20_Step ==
    /\ invoked' # invoked =>
          /\ invoked' = Append(invoked, entities[idx])
          /\ pc' = "attempt"
          /\ attempt' = 0 /\ last_error' = <<>> /\ waited' = 0
          /\ sattempt' = 0 /\ search_result' = NoResult
          /\ requests' = 0 /\ search_errors' = 0 /\ search_waited' = 0
          /\ extractions' = 0 /\ llm_calls' = 0
    /\ (pc = "attempt" /\ pc' = "search") => sattempt' = 0
    /\ InEntity' =>
          /\ waited' = 2 ^ attempt' - 1
          /\ search_errors' <= attempt' /\ requests' <= SEARCH_MAX_RETRIES * (attempt' + 1)
          /\ requests' >= search_errors'
          /\ search_waited' <= requests' * RETRY_DELAY * SEARCH_MAX_RETRIES
          /\ (search_result' # NoResult) => search_result'.entity = entities'[idx']
          /\ (last_error' = <<>>) <=> (attempt' = 0)
    /\ Len(results') >= Len(results) /\ Len(failed_entities') >= Len(failed_entities)
    /\ SubSeq(results', 1, Len(results)) = results
    /\ SubSeq(failed_entities', 1, Len(failed_entities)) = failed_entities
    /\ (InEntity /\ ~InEntity') =>
          /\ results' = Append(results, Last(results'))
          /\ OwnResult(Last(results'))
C20_RetryStateIsLocal == [][C20_Step]_vars

\* witness of C20: the first entity failed three times and left an "Error: "
\* result, and the second entity starts with attempt 0 and no last error
C20_Witness ==
    /\ pc = "attempt" /\ idx = 2
    /\ results = <<ErrorResult(entities[1], FailedAfter)>>
    /\ failed_entities = <<entities[1]>>
    /\ attempt = 0 /\ last_error = <<>> /\ waited = 0
    /\ requests = 0 /\ search_waited = 0

====
